---- MODULE Spec2Model ----
(***************************************************************************)
(* EDF reader / writer of wonambi (src/wonambi/ioeeg/edf.py).              *)
(*                                                                         *)
(* A file is a sequence of bytes (0..255): the fixed-width ASCII header    *)
(* followed by the body of little-endian int16 samples.  Physical values   *)
(* are integers (floats with integral values); results of the calibration  *)
(* are exact rationals [num, den]; floating-point rounding is not          *)
(* modelled.  Python's None is a record field none = TRUE.                 *)
(***************************************************************************)
EXTENDS Integers, Sequences, FiniteSets, TLC

VARIABLES
    data,       \* the dataset handed to write_edf (ChanTime, one trial)
    arg,        \* the physical_max argument of write_edf
    file,       \* bytes of the file at the path
    fexists,    \* whether a file exists at the path
    wret,       \* outcome of the last write_edf call
    obj,        \* outcome of Edf(edffile): "none", "ok" or the exception
    self,       \* attributes of the Edf object (name -> value)
    hret,       \* outcome of the last return_hdr call
    dret,       \* outcome of the last return_dat call
    plan,       \* windows of a composed read (a, m, b and the channels)
    parts,      \* the results of the reads of the plan
    handles,    \* number of file handles the Edf object holds open
    root,       \* the tree of an Annotations object (self.root)
    rater,      \* the current rater of the object (self.rater), by identity
    xml_file,   \* the tree as last written to or loaded from the xml file
    aret        \* the last call on the Annotations object and its outcome

\* the state of the Annotations object (phypno/attr/annotations.py)
annot_vars == <<root, rater, xml_file, aret>>

vars == <<data, arg, file, fexists, wret, obj, self, hret, dret, plan, parts,
          handles, root, rater, xml_file, aret>>

-----------------------------------------------------------------------------
(* Bounds of the model *)
MaxChan == 2        \* channels of a dataset or file
MaxSmp == 4         \* samples per channel of a dataset
MaxFreq == 2        \* sampling rate of a dataset
MaxRecords == 2     \* records of a hand-built file
MaxRaters == 3      \* raters of an annotation file
MaxMarkers == 3     \* markers of a rater
FirstYear == 1984   \* the years of the recordings handed to write_edf
LastYear == 2085

DIGITAL_MAX == 32767
DIGITAL_MIN == -1 * DIGITAL_MAX
DEFAULT_PHYSICAL_MAX == 1000

Min(a, b) == IF a <= b THEN a ELSE b
Max(a, b) == IF a >= b THEN a ELSE b
Abs(a) == IF a < 0 THEN -a ELSE a

RECURSIVE SumSeq(_)
SumSeq(s) == IF s = <<>> THEN 0 ELSE Head(s) + SumSeq(Tail(s))

RECURSIVE MaxSeq(_)
MaxSeq(s) == IF Len(s) = 1 THEN Head(s) ELSE Max(Head(s), MaxSeq(Tail(s)))

RECURSIVE Concat(_)
Concat(ss) == IF ss = <<>> THEN <<>> ELSE Head(ss) \o Concat(Tail(ss))

Spaces(n) == [i \in 1..n |-> 32]

-----------------------------------------------------------------------------
(* Python string formatting *)

RECURSIVE Digits(_)
Digits(n) == IF n < 10 THEN <<48 + n>> ELSE Digits(n \div 10) \o <<48 + (n % 10)>>

\* A number of the writer: a Python int, or a float64 with an integral value
\* (neg is the sign bit, which tells -0.0 from 0.0).
IntNum(v) == [kind |-> "int", v |-> v, neg |-> v < 0]
FloatNum(v, neg) == [kind |-> "float", v |-> v, neg |-> neg]

\* str() of a number: "-12" for an int, "-12.0" for a float
str(x) ==
    IF x.kind = "int"
    THEN (IF x.v < 0 THEN <<45>> ELSE <<>>) \o Digits(Abs(x.v))
    ELSE (IF x.neg THEN <<45>> ELSE <<>>) \o Digits(Abs(x.v)) \o <<46, 48>>

\* '{:<w}'.format(s): left-justified, padded with spaces, never truncated
ljust(s, w) == IF Len(s) >= w THEN s ELSE s \o Spaces(w - Len(s))

\* -1 * x
negate(x) ==
    IF x.kind = "int" THEN IntNum(-x.v) ELSE FloatNum(-x.v, ~x.neg)

\* strftime of a two-digit field (%d %m %y %H %M %S)
two(n) == <<48 + (n \div 10), 48 + (n % 10)>>

-----------------------------------------------------------------------------
(* Calendar: datetime and timedelta *)

IsLeap(y) == (y % 4 = 0 /\ y % 100 # 0) \/ y % 400 = 0

DaysInMonth(y, m) ==
    IF m = 2 THEN (IF IsLeap(y) THEN 29 ELSE 28)
    ELSE IF m \in {4, 6, 9, 11} THEN 30 ELSE 31

\* datetime(year, month, day, hour, minute, sec) raises ValueError otherwise
ValidDatetime(y, mo, d, h, mi, s) ==
    /\ y \in 1..9999 /\ mo \in 1..12 /\ d >= 1 /\ d <= DaysInMonth(y, mo)
    /\ h \in 0..23 /\ mi \in 0..59 /\ s \in 0..59

RECURSIVE AddDays(_, _)
AddDays(t, n) ==
    IF n = 0 THEN t
    ELSE IF t.day < DaysInMonth(t.year, t.month)
         THEN AddDays([t EXCEPT !.day = @ + 1], n - 1)
         ELSE IF t.month < 12
              THEN AddDays([t EXCEPT !.day = 1, !.month = @ + 1], n - 1)
              ELSE AddDays([t EXCEPT !.day = 1, !.month = 1, !.year = @ + 1], n - 1)

\* t + timedelta(seconds=s), s >= 0
AddSeconds(t, s) ==
    LET total == t.hour * 3600 + t.minute * 60 + t.sec + s
        rest == total % 86400
    IN  [AddDays(t, total \div 86400) EXCEPT
            !.hour = rest \div 3600,
            !.minute = (rest % 3600) \div 60,
            !.sec = rest % 60]

-----------------------------------------------------------------------------
(* int16 *)

\* C conversion of a 32-bit integer to int16: two's complement wrap
wrap16(x) == ((x + 32768) % 65536) - 32768

\* struct.pack('<h', v): two bytes, little-endian
pack_h(v) == LET u == v % 65536 IN <<u % 256, u \div 256>>

\* one int16 from two bytes, little-endian
unpack_h(lo, hi) == LET u == lo + 256 * hi IN IF u >= 32768 THEN u - 65536 ELSE u

\* truncation toward zero of a / b (b > 0), as astype does on a float
trunc_div(a, b) == IF a >= 0 THEN a \div b ELSE -((-a) \div b)

-----------------------------------------------------------------------------
(* write_edf *)

\* the general form of trunc_div: the sign of the divisor may be negative
trunc_quot(a, b) == IF b > 0 THEN trunc_div(a, b) ELSE trunc_div(-a, -b)

\* a variant that forgets abs: max(data.data[0])
max_signed(mat) ==
    LET m == MaxSeq(Concat([c \in 1..Len(mat) |->
                 [t \in 1..Len(mat[c]) |-> mat[c][t]]]))
    IN  FloatNum(m, m < 0)

\* max(abs(data.data[0])) of a float matrix: a float64
max_abs(mat) ==
    FloatNum(MaxSeq(Concat([c \in 1..Len(mat) |->
                 [t \in 1..Len(mat[c]) |-> Abs(mat[c][t])]])), FALSE)

\* dat.astype('int16') of one value of data / physical_max * DIGITAL_MAX;
\* the value is nan or inf when physical_max is 0, and the conversion of
\* those is undefined: ub is what the build produces
astype_int16(v, pm, ub) ==
    IF pm = 0 THEN ub ELSE wrap16(trunc_quot(v * DIGITAL_MAX, pm))

\* dat[dat > DIGITAL_MAX] = DIGITAL_MAX; dat[dat < DIGITAL_MIN] = DIGITAL_MIN
clip(d) ==
    IF d > DIGITAL_MAX THEN DIGITAL_MAX
    ELSE IF d < DIGITAL_MIN THEN DIGITAL_MIN ELSE d

\* the digital matrix written to the body
encode(mat, pm, ub) ==
    [c \in 1..Len(mat) |->
        [t \in 1..Len(mat[c]) |-> clip(astype_int16(mat[c][t], pm, ub))]]

Rep(field, n) == Concat([i \in 1..n |-> field])

\* 'X X X X' and 'Startdate X X X X' and 'uV'
SubjectText == <<88, 32, 88, 32, 88, 32, 88>>
RecordingText == <<83, 116, 97, 114, 116, 100, 97, 116, 101, 32>> \o SubjectText
UnitText == <<117, 86>>

\* the header as write_edf emits it, field after field
header_bytes(start_time, n_records, n_channels, labels, physical_min, physical_max, s_freq) ==
       ljust(str(IntNum(0)), 8)
    \o ljust(SubjectText, 80)
    \o ljust(RecordingText, 80)
    \o two(start_time.day) \o <<46>> \o two(start_time.month) \o <<46>>
    \o two(start_time.year % 100)
    \o two(start_time.hour) \o <<46>> \o two(start_time.minute) \o <<46>>
    \o two(start_time.sec)
    \o ljust(str(IntNum(256 + 256 * n_channels)), 8)
    \o Spaces(44)
    \o ljust(str(IntNum(n_records)), 8)
    \o ljust(str(IntNum(1)), 8)
    \o ljust(str(IntNum(n_channels)), 4)
    \o Concat([c \in 1..Len(labels) |-> ljust(labels[c], 16)])
    \o Rep(ljust(<<>>, 80), n_channels)
    \o Rep(ljust(UnitText, 8), n_channels)
    \o Rep(ljust(str(physical_min), 8), n_channels)
    \o Rep(ljust(str(physical_max), 8), n_channels)
    \o Rep(ljust(str(IntNum(DIGITAL_MIN)), 8), n_channels)
    \o Rep(ljust(str(IntNum(DIGITAL_MAX)), 8), n_channels)
    \o Rep(ljust(<<>>, 80), n_channels)
    \o Rep(ljust(str(IntNum(s_freq)), 8), n_channels)
    \o Rep(Spaces(32), n_channels)

\* a variant that lays a record out sample after sample:
\* dat[:, i0:i1].flatten(order='F')
record_bytes_by_sample(dat, i, s_freq) ==
    Concat([k \in 1..s_freq |->
        Concat([c \in 1..Len(dat) |-> pack_h(dat[c][i * s_freq + k])])])

\* record i (0-based) of the body: dat[:, i0:i1].flatten(order='C'), packed
record_bytes(dat, i, s_freq) ==
    Concat([c \in 1..Len(dat) |->
        Concat([k \in 1..s_freq |-> pack_h(dat[c][i * s_freq + k])])])

body_bytes(dat, n_records, s_freq) ==
    Concat([r \in 1..n_records |-> record_bytes(dat, r - 1, s_freq)])

\* the physical_max write_edf works with: the argument, or the largest
\* magnitude of the data when the argument is None
used_physical_max(d, a) == IF a.none THEN max_abs(d.mat) ELSE IntNum(a.v)

\* a variant that takes every start_time as present
start_time_never_missing(d) == FALSE

\* if data.start_time is None
start_time_missing(d) == d.start_time.none

\* the whole function: its outcome, the bytes it leaves in the file, the
\* start_time it wrote and the position of the file when the header ended
write_edf_result(d, a, ub) ==
    IF start_time_missing(d)
    THEN [status |-> "ValueError", opened |-> FALSE, bytes |-> <<>>,
          physical_max |-> IntNum(0), dat |-> <<>>,
          start_time |-> d.start_time, body_at |-> 0]
    ELSE
    LET start_time == AddSeconds(d.start_time, d.time0)
        physical_max == used_physical_max(d, a)
        physical_min == negate(physical_max)
        dat == encode(d.mat, physical_max.v, ub)
        n_smp == Len(d.mat[1])
        s_freq == d.s_freq
        n_records == n_smp \div s_freq
        n_channels == Len(d.chan)
        header == header_bytes(start_time, n_records, n_channels, d.chan,
                               physical_min, physical_max, s_freq)
    IN  [status |-> "ok", opened |-> TRUE,
         bytes |-> header \o body_bytes(dat, n_records, s_freq),
         physical_max |-> physical_max, dat |-> dat,
         start_time |-> start_time, body_at |-> Len(header)]

\* outcomes of the conversion of nan / inf to int16
UBCast == {0, -32768}

\* nan and inf arise only from a division by a physical_max of 0
Casts(d, a) ==
    IF ~start_time_missing(d) /\ used_physical_max(d, a).v = 0
    THEN UBCast ELSE {0}

write_edf ==
    /\ wret.status = "none"
    /\ \E ub \in Casts(data, arg) :
        LET r == write_edf_result(data, arg, ub)
        IN  /\ wret' = [status |-> r.status, physical_max |-> r.physical_max,
                        dat |-> r.dat, start_time |-> r.start_time,
                        body_at |-> r.body_at]
            /\ file' = IF r.opened THEN r.bytes ELSE file
            /\ fexists' = (fexists \/ r.opened)
    /\ UNCHANGED <<data, arg, obj, self, hret, dret, plan, parts, handles>>
    /\ UNCHANGED annot_vars

-----------------------------------------------------------------------------
(* Python parsing of the header fields *)

IsSpace(c) == c = 32 \/ c \in 9..13
IsDigit(c) == c \in 48..57

RECURSIVE lstrip(_)
lstrip(bs) == IF bs # <<>> /\ IsSpace(Head(bs)) THEN lstrip(Tail(bs)) ELSE bs

RECURSIVE rstrip(_)
rstrip(bs) ==
    IF bs # <<>> /\ IsSpace(bs[Len(bs)])
    THEN rstrip(SubSeq(bs, 1, Len(bs) - 1)) ELSE bs

strip(bs) == rstrip(lstrip(bs))

AllDigits(bs) == \A i \in 1..Len(bs) : IsDigit(bs[i])

RECURSIVE DigitsValue(_)
DigitsValue(bs) ==
    IF bs = <<>> THEN 0
    ELSE 10 * DigitsValue(SubSeq(bs, 1, Len(bs) - 1)) + (bs[Len(bs)] - 48)

Unsigned(bs) == IF bs # <<>> /\ Head(bs) \in {43, 45} THEN Tail(bs) ELSE bs
Signed(bs, v) == IF bs # <<>> /\ Head(bs) = 45 THEN -v ELSE v

\* int(b): optional sign and digits between optional white space, or ValueError
int(bs) ==
    LET t == strip(bs)
        d == Unsigned(t)
    IN  IF d # <<>> /\ AllDigits(d)
        THEN [ok |-> TRUE, v |-> Signed(t, DigitsValue(d))]
        ELSE [ok |-> FALSE, v |-> 0]

\* index of the first '.' of bs, or Len(bs) + 1
RECURSIVE DotAt(_, _)
DotAt(bs, i) == IF i > Len(bs) \/ bs[i] = 46 THEN i ELSE DotAt(bs, i + 1)

\* float(b) of a decimal literal without exponent, or ValueError; exact says
\* that the value is integral, the only floats the model represents
float(bs) ==
    LET t == strip(bs)
        d == Unsigned(t)
        k == DotAt(d, 1)
        ip == SubSeq(d, 1, k - 1)
        fp == SubSeq(d, k + 1, Len(d))
    IN  IF AllDigits(ip) /\ AllDigits(fp) /\ (ip # <<>> \/ fp # <<>>)
        THEN [ok |-> TRUE, v |-> Signed(t, DigitsValue(ip)),
              exact |-> DigitsValue(fp) = 0]
        ELSE [ok |-> FALSE, v |-> 0, exact |-> TRUE]

\* findall('(\d+)', s): the maximal runs of digits, as integers
RECURSIVE findall_digits(_, _)
findall_digits(bs, run) ==
    IF bs = <<>> THEN (IF run = <<>> THEN <<>> ELSE <<DigitsValue(run)>>)
    ELSE IF IsDigit(Head(bs)) THEN findall_digits(Tail(bs), Append(run, Head(bs)))
    ELSE (IF run = <<>> THEN <<>> ELSE <<DigitsValue(run)>>)
         \o findall_digits(Tail(bs), <<>>)

\* b.decode('utf-8') succeeds on ASCII; bytes above 127 are not modelled as
\* multi-byte characters and count as undecodable
decodable(bs) == \A i \in 1..Len(bs) : bs[i] < 128

-----------------------------------------------------------------------------
(* Edf._read_hdr *)

\* f.read(n) at position p, and the position after it
read(f, p, n) == IF p >= Len(f) THEN <<>> ELSE SubSeq(f, p + 1, Min(p + n, Len(f)))
tell(f, p, n) == IF p >= Len(f) THEN p ELSE Min(p + n, Len(f))

\* [f.read(w) for n in channels] at position p
read_each(f, p, w, k) == [i \in 1..k |-> read(f, tell(f, p, (i - 1) * w), w)]

\* the first check that fails, in the order of the code, or "ok"
RECURSIVE first_error(_)
first_error(checks) ==
    IF checks = <<>> THEN "ok"
    ELSE IF ~Head(checks)[1] THEN Head(checks)[2] ELSE first_error(Tail(checks))

MARKER == <<48, 32, 32, 32, 32, 32, 32, 32>>

\* a variant whose cutoff is 1984
y2k_from_84(year) == IF year >= 84 THEN year + 1900 ELSE year + 2000

\* Y2K: cutoff is 1985
y2k(year) == IF year >= 85 THEN year + 1900 ELSE year + 2000

\* a variant that accepts a header shorter than declared
header_length_at_most(offset, header_n_bytes) == offset <= header_n_bytes

\* the check of the end of the header against the declared length
header_length_ok(offset, header_n_bytes) == offset = header_n_bytes

read_hdr(f) ==
    LET version == read(f, 0, 8)
        p1 == tell(f, 0, 8)
        subject_id == read(f, p1, 80)
        p2 == tell(f, p1, 80)
        recording_id == read(f, p2, 80)
        p3 == tell(f, p2, 80)
        date_b == read(f, p3, 8)
        p4 == tell(f, p3, 8)
        time_b == read(f, p4, 8)
        p5 == tell(f, p4, 8)
        dmy == findall_digits(date_b, <<>>)
        hms == findall_digits(time_b, <<>>)
        dmy3 == IF Len(dmy) = 3 THEN dmy ELSE <<1, 1, 0>>
        hms3 == IF Len(hms) = 3 THEN hms ELSE <<0, 0, 0>>
        year == y2k(dmy3[3])
        header_n_bytes == int(read(f, p5, 8))
        p6 == tell(f, p5, 8) + 44
        n_records == int(read(f, p6, 8))
        p7 == tell(f, p6, 8)
        record_length == float(read(f, p7, 8))
        p8 == tell(f, p7, 8)
        n_channels == int(read(f, p8, 4))
        p9 == tell(f, p8, 4)
        k == Max(n_channels.v, 0)
        label == read_each(f, p9, 16, k)
        p10 == tell(f, p9, 16 * k)
        transducer == read_each(f, p10, 80, k)
        p11 == tell(f, p10, 80 * k)
        physical_dim == read_each(f, p11, 8, k)
        p12 == tell(f, p11, 8 * k)
        physical_min == [i \in 1..k |-> float(read_each(f, p12, 8, k)[i])]
        p13 == tell(f, p12, 8 * k)
        physical_max == [i \in 1..k |-> float(read_each(f, p13, 8, k)[i])]
        p14 == tell(f, p13, 8 * k)
        digital_min == [i \in 1..k |-> float(read_each(f, p14, 8, k)[i])]
        p15 == tell(f, p14, 8 * k)
        digital_max == [i \in 1..k |-> float(read_each(f, p15, 8, k)[i])]
        p16 == tell(f, p15, 8 * k)
        prefiltering == read_each(f, p16, 80, k)
        p17 == tell(f, p16, 80 * k)
        n_samples_per_record == [i \in 1..k |-> int(read_each(f, p17, 8, k)[i])]
        p18 == tell(f, p17, 8 * k) + 32 * n_channels.v
        AllOk(xs) == \A i \in 1..Len(xs) : xs[i].ok
        AllDec(xs) == \A i \in 1..Len(xs) : decodable(xs[i])
        floats == physical_min \o physical_max \o digital_min \o digital_max
        status == first_error(<<
            <<version = MARKER, "AssertionError">>,
            <<decodable(subject_id), "UnicodeDecodeError">>,
            <<decodable(recording_id), "UnicodeDecodeError">>,
            <<decodable(date_b), "UnicodeDecodeError">>,
            <<Len(dmy) = 3, "ValueError">>,
            <<decodable(time_b), "UnicodeDecodeError">>,
            <<Len(hms) = 3, "ValueError">>,
            <<ValidDatetime(year, dmy3[2], dmy3[1], hms3[1], hms3[2], hms3[3]),
              "ValueError">>,
            <<header_n_bytes.ok, "ValueError">>,
            <<n_records.ok, "ValueError">>,
            <<record_length.ok, "ValueError">>,
            <<n_channels.ok, "ValueError">>,
            <<AllDec(label), "UnicodeDecodeError">>,
            <<AllDec(transducer), "UnicodeDecodeError">>,
            <<AllDec(physical_dim), "UnicodeDecodeError">>,
            <<AllOk(physical_min), "ValueError">>,
            <<AllOk(physical_max), "ValueError">>,
            <<AllOk(digital_min), "ValueError">>,
            <<AllOk(digital_max), "ValueError">>,
            <<AllDec(prefiltering), "UnicodeDecodeError">>,
            <<AllOk(n_samples_per_record), "ValueError">>,
            <<header_length_ok(p18, header_n_bytes.v), "AssertionError">> >>)
    IN  [status |-> status,
         exact |-> record_length.exact
                   /\ \A i \in 1..Len(floats) : floats[i].exact,
         hdr |-> [subject_id |-> strip(subject_id),
                  recording_id |-> strip(recording_id),
                  start_time |-> [year |-> year, month |-> dmy3[2],
                                  day |-> dmy3[1], hour |-> hms3[1],
                                  minute |-> hms3[2], sec |-> hms3[3]],
                  header_n_bytes |-> header_n_bytes.v,
                  n_records |-> n_records.v,
                  record_length |-> record_length.v,
                  n_channels |-> n_channels.v,
                  label |-> [i \in 1..k |-> strip(label[i])],
                  transducer |-> [i \in 1..k |-> strip(transducer[i])],
                  physical_dim |-> [i \in 1..k |-> strip(physical_dim[i])],
                  physical_min |-> [i \in 1..k |-> physical_min[i].v],
                  physical_max |-> [i \in 1..k |-> physical_max[i].v],
                  digital_min |-> [i \in 1..k |-> digital_min[i].v],
                  digital_max |-> [i \in 1..k |-> digital_max[i].v],
                  prefiltering |-> [i \in 1..k |-> strip(prefiltering[i])],
                  n_samples_per_record |->
                      [i \in 1..k |-> n_samples_per_record[i].v]]]

\* a variant that closes the file only when the block ends normally:
\* f = open(); ...; f.close()
close_on_return(open_handles, raised) ==
    IF raised THEN open_handles ELSE open_handles - 1

\* with self.filename.open('rb') as f: the file is closed when the block
\* ends, normally or by an exception
with_exit(open_handles, raised) == open_handles - 1

\* Edf(edffile): __init__ runs _read_hdr; hdr is set by its last statement
Edf_init ==
    /\ obj = "none"
    /\ IF ~fexists
       THEN /\ obj' = "FileNotFoundError"
            /\ self' = self
            /\ handles' = handles
       ELSE LET r == read_hdr(file)
            IN  /\ obj' = r.status
                /\ self' = IF r.status = "ok" THEN [hdr |-> r.hdr] ELSE self
                /\ handles' = with_exit(handles + 1, r.status # "ok")
    /\ UNCHANGED <<data, arg, file, fexists, wret, hret, dret, plan, parts>>
    /\ UNCHANGED annot_vars

-----------------------------------------------------------------------------
(* Edf.return_hdr *)

has(o, name) == name \in DOMAIN o

RECURSIVE GCD(_, _)
GCD(a, b) == IF b = 0 THEN a ELSE GCD(b, a % b)

\* the float a / b as a fraction in lowest terms (<<1, 0>> is inf)
fraction(a, b) ==
    LET g == GCD(Abs(a), Abs(b))
    IN  IF g = 0 THEN <<0, 0>>
        ELSE IF b < 0 THEN <<-(a \div g), (-b) \div g>>
        ELSE <<a \div g, b \div g>>

\* a variant that lets an empty range through
ranges_not_negative(phys_range, dig_range) ==
    /\ \A i \in 1..Len(phys_range) : phys_range[i] >= 0
    /\ \A i \in 1..Len(dig_range) : dig_range[i] >= 0

\* assert all(phys_range > 0); assert all(dig_range > 0)
ranges_ok(phys_range, dig_range) ==
    /\ \A i \in 1..Len(phys_range) : phys_range[i] > 0
    /\ \A i \in 1..Len(dig_range) : dig_range[i] > 0

\* the attributes return_hdr has set when it ends, and how it ends
return_hdr_result(o) ==
    LET hdr == o.hdr
        n == Len(hdr.n_samples_per_record)
        max_smp == MaxSeq(hdr.n_samples_per_record)
        smp_in_blk == SumSeq(hdr.n_samples_per_record)
        phys_range == [i \in 1..n |-> hdr.physical_max[i] - hdr.physical_min[i]]
        dig_range == [i \in 1..n |-> hdr.digital_max[i] - hdr.digital_min[i]]
        first == [max_smp |-> max_smp, smp_in_blk |-> smp_in_blk,
                  dig_min |-> hdr.digital_min, phys_min |-> hdr.physical_min]
        gain == [i \in 1..n |-> fraction(phys_range[i], dig_range[i])]
    IN  IF n = 0
        THEN [status |-> "ValueError", attrs |-> o, n_samples |-> 0,
              s_freq |-> <<0, 1>>]
        ELSE IF ~ranges_ok(phys_range, dig_range)
        THEN [status |-> "AssertionError", attrs |-> first @@ o,
              n_samples |-> 0, s_freq |-> <<0, 1>>]
        ELSE [status |-> "ok", attrs |-> [gain |-> gain] @@ first @@ o,
              n_samples |-> max_smp * hdr.n_records,
              s_freq |-> <<max_smp, hdr.record_length>>]

return_hdr ==
    /\ obj = "ok"
    /\ LET r == return_hdr_result(self)
       IN  /\ self' = r.attrs
           /\ hret' = [status |-> r.status, n_samples |-> r.n_samples,
                       s_freq |-> r.s_freq]
    /\ UNCHANGED <<data, arg, file, fexists, wret, obj, dret, plan, parts,
                   handles>>
    /\ UNCHANGED annot_vars

-----------------------------------------------------------------------------
(* Edf._read_record and Edf.return_dat *)

\* the value a float64 cell holds before it is filled: dat.fill(NaN)
NaN == -99999

\* numpy.fromfile(f, count=count, dtype='int16') at byte position pos
fromfile(f, pos, count) ==
    LET avail == IF pos >= Len(f) THEN 0 ELSE (Len(f) - pos) \div 2
    IN  [i \in 1..Min(count, avail) |-> unpack_h(f[pos + 2 * i - 1], f[pos + 2 * i])]

\* a variant that repeats the run as a whole: numpy.tile(x, ratio)
repeat_tiled(x, ratio) == Concat([i \in 1..ratio |-> x])

\* numpy.repeat(x, ratio): every element ratio times, in order
RECURSIVE repeat(_, _)
repeat(x, ratio) ==
    IF x = <<>> THEN <<>>
    ELSE [i \in 1..ratio |-> Head(x)] \o repeat(Tail(x), ratio)

\* the argument of f.seek in _read_record
seek_offset(header_n_bytes, smp_in_blk, blk, ch_in_rec) ==
    header_n_bytes + smp_in_blk * blk + ch_in_rec

\* row[:] = v : same length, or a single value broadcast over the row
broadcasts(len, width) == len = width \/ len = 1

\* one requested channel (0-based i_ch) of block blk
read_channel(f, o, blk, i_ch) ==
    LET nspr == o.hdr.n_samples_per_record
    IN  IF i_ch >= Len(nspr)
        THEN [status |-> "IndexError", x |-> <<>>, row |-> <<>>]
        ELSE
        LET ch_in_rec == SumSeq(SubSeq(nspr, 1, i_ch))
            n_smp_per_chan == nspr[i_ch + 1]
            ratio == o.max_smp \div n_smp_per_chan
            x == fromfile(f, seek_offset(o.hdr.header_n_bytes, o.smp_in_blk,
                                         blk, ch_in_rec), n_smp_per_chan)
            rep == repeat(x, ratio)
        IN  IF ~broadcasts(Len(rep), o.max_smp)
            THEN [status |-> "ValueError", x |-> x, row |-> <<>>]
            ELSE [status |-> "ok", x |-> x,
                  row |-> [j \in 1..o.max_smp |->
                              IF Len(rep) = o.max_smp THEN rep[j] ELSE rep[1]]]

\* _read_record(f, blk, chans): the raw runs read and the upsampled block
read_record(f, o, blk, chans) ==
    IF ~has(o, "max_smp")
    THEN [status |-> "AttributeError", blk |-> blk, x |-> <<>>,
          dat_in_rec |-> <<>>]
    ELSE
    LET per == [i \in 1..Len(chans) |-> read_channel(f, o, blk, chans[i])]
    IN  [status |-> first_error([i \in 1..Len(chans) |->
                                    <<per[i].status = "ok", per[i].status>>]),
         blk |-> blk,
         x |-> [i \in 1..Len(chans) |-> per[i].x],
         dat_in_rec |-> [i \in 1..Len(chans) |-> per[i].row]]

\* _select_blocks(blocks, begsam, endsam) of ioeeg/utils.py: for every block
\* that overlaps [begsam, endsam), in order, the columns of the result it
\* fills, its index and the range of it that is read
RECURSIVE select_from(_, _, _, _, _)
select_from(blocks, begsam, endsam, blk, start) ==
    IF blk >= Len(blocks) THEN <<>>
    ELSE LET stop == start + blocks[blk + 1]
         IN  (IF stop > begsam /\ start < endsam /\ start < stop
              THEN << [i_dat |-> <<Max(start, begsam) - begsam,
                                   Min(stop, endsam) - begsam>>,
                       blk |-> blk,
                       i_blk |-> <<Max(begsam - start, 0),
                                   Min(endsam - start, blocks[blk + 1])>>] >>
              ELSE <<>>)
             \o select_from(blocks, begsam, endsam, blk + 1, stop)

select_blocks(blocks, begsam, endsam) ==
    select_from(blocks, begsam, endsam, 0, 0)

\* the columns dat[:, lo:hi] names in a matrix of the given width (0-based,
\* hi excluded; a slice is cut at the end of the array)
slice(lo, hi, width) == {j \in 0..(width - 1) : lo <= j /\ j < hi}

\* a variant that stops one column early on both sides:
\* dat[:, i_dat[0]:i_dat[1] - 1] = dat_in_rec[:, i_blk[0]:i_blk[1] - 1]
assign_block_short(dat, width, dat_in_rec, max_smp, i_dat, i_blk) ==
    [status |-> "ok",
     dat |-> [r \in 1..Len(dat) |-> [j \in 1..width |->
         IF (j - 1) \in slice(i_dat[1], i_dat[2] - 1, width)
         THEN dat_in_rec[r][i_blk[1] + (j - 1 - i_dat[1]) + 1]
         ELSE dat[r][j]]]]

\* a variant that reads the block from its start:
\* dat[:, i_dat[0]:i_dat[1]] = dat_in_rec[:, :i_blk[1] - i_blk[0]]
assign_block_from_start(dat, width, dat_in_rec, max_smp, i_dat, i_blk) ==
    [status |-> "ok",
     dat |-> [r \in 1..Len(dat) |-> [j \in 1..width |->
         IF (j - 1) \in slice(i_dat[1], i_dat[2], width)
         THEN dat_in_rec[r][(j - 1 - i_dat[1]) + 1]
         ELSE dat[r][j]]]]

\* dat[:, i_dat[0]:i_dat[1]] = dat_in_rec[:, i_blk[0]:i_blk[1]]
assign_block(dat, width, dat_in_rec, max_smp, i_dat, i_blk) ==
    LET dst == slice(i_dat[1], i_dat[2], width)
        src == slice(i_blk[1], i_blk[2], max_smp)
    IN  IF ~broadcasts(Cardinality(src), Cardinality(dst))
        THEN [status |-> "ValueError", dat |-> dat]
        ELSE [status |-> "ok",
              dat |-> [r \in 1..Len(dat) |-> [j \in 1..width |->
                  IF (j - 1) \in dst
                  THEN (IF Cardinality(src) = Cardinality(dst)
                        THEN dat_in_rec[r][i_blk[1] + (j - 1 - i_dat[1]) + 1]
                        ELSE dat_in_rec[r][i_blk[1] + 1])
                  ELSE dat[r][j]]]]

\* the loop of return_dat over the selected blocks
RECURSIVE read_blocks(_, _, _, _, _, _, _)
read_blocks(f, o, chan, width, triples, dat, reads) ==
    IF triples = <<>> THEN [status |-> "ok", dat |-> dat, reads |-> reads]
    ELSE
    LET t == Head(triples)
        rec == [i_dat |-> t.i_dat, i_blk |-> t.i_blk]
               @@ read_record(f, o, t.blk, chan)
    IN  IF rec.status # "ok"
        THEN [status |-> rec.status, dat |-> dat, reads |-> Append(reads, rec)]
        ELSE
        LET a == assign_block(dat, width, rec.dat_in_rec, o.max_smp,
                              t.i_dat, t.i_blk)
        IN  IF a.status # "ok"
            THEN [status |-> a.status, dat |-> dat, reads |-> Append(reads, rec)]
            ELSE read_blocks(f, o, chan, width, Tail(triples), a.dat,
                             Append(reads, rec))

\* physical = (digital - dig_min) * gain + phys_min, as an exact fraction
calibrate(d, dig_min, gain, phys_min) ==
    IF d = NaN THEN [nan |-> TRUE, num |-> 0, den |-> 1]
    ELSE [nan |-> FALSE, num |-> (d - dig_min) * gain[1] + phys_min * gain[2],
          den |-> gain[2]]

Failed(status, chan, begsam, endsam, reads) ==
    [status |-> status, chan |-> chan, begsam |-> begsam, endsam |-> endsam,
     raw |-> <<>>, dat |-> <<>>, reads |-> reads, opened |-> FALSE,
     in_with |-> FALSE]

return_dat_result(f, o, chan, begsam, endsam) ==
    IF ~(begsam < endsam)
    THEN Failed("AssertionError", chan, begsam, endsam, <<>>)
    ELSE
    LET width == endsam - begsam
        empty == [r \in 1..Len(chan) |-> [j \in 1..width |-> NaN]]
        nspr == o.hdr.n_samples_per_record
    IN  IF nspr = <<>> THEN Failed("ValueError", chan, begsam, endsam, <<>>)
        ELSE
        LET smpl_in_blk == MaxSeq(nspr)
            blocks == [b \in 1..o.hdr.n_records |-> smpl_in_blk]
            got == read_blocks(f, o, chan, width,
                               select_blocks(blocks, begsam, endsam), empty, <<>>)
            bad_chan == \E i \in 1..Len(chan) : chan[i] >= Len(nspr)
            after_open ==
                IF got.status # "ok"
                THEN Failed(got.status, chan, begsam, endsam, got.reads)
                ELSE IF ~has(o, "dig_min")
                THEN Failed("AttributeError", chan, begsam, endsam, got.reads)
                ELSE IF bad_chan
                THEN Failed("IndexError", chan, begsam, endsam, got.reads)
                ELSE IF ~has(o, "gain")
                THEN Failed("AttributeError", chan, begsam, endsam, got.reads)
                ELSE [Failed("ok", chan, begsam, endsam, got.reads) EXCEPT
                      !.raw = got.dat,
                      !.dat = [r \in 1..Len(chan) |-> [j \in 1..width |->
                          calibrate(got.dat[r][j], o.dig_min[chan[r] + 1],
                                    o.gain[chan[r] + 1],
                                    o.phys_min[chan[r] + 1])]]]
        IN  \* the file was opened; in_with: the with block ended by an
            \* exception
            [after_open EXCEPT !.opened = TRUE,
                               !.in_with = got.status # "ok"]

\* the caller of a composed read keeps the matrices return_dat gave it for
\* the windows [a, m), [m, b) and [a, b) of its plan
note(ps, pl, r) ==
    IF ~pl.active \/ r.status # "ok" \/ r.chan # pl.chan THEN ps
    ELSE [ps EXCEPT
            !.left = IF r.begsam = pl.a /\ r.endsam = pl.m THEN r ELSE @,
            !.right = IF r.begsam = pl.m /\ r.endsam = pl.b THEN r ELSE @,
            !.whole = IF r.begsam = pl.a /\ r.endsam = pl.b THEN r ELSE @]

\* a call of return_dat with arguments drawn from the given sets
return_dat(Chans, Begs, Ends) ==
    /\ obj = "ok"
    /\ dret.status = "none"
    /\ \E chan \in Chans, begsam \in Begs, endsam \in Ends :
        /\ dret' = return_dat_result(file, self, chan, begsam, endsam)
        /\ parts' = note(parts, plan, dret')
        /\ handles' = IF dret'.opened
                      THEN with_exit(handles + 1, dret'.in_with)
                      ELSE handles
    /\ UNCHANGED <<data, arg, file, fexists, wret, obj, self, hret, plan>>
    /\ UNCHANGED annot_vars

\* the caller lets go of what return_dat gave it (a matrix, or an exception)
\* before it calls again
release ==
    /\ dret.status # "none"
    /\ dret' = Failed("none", <<>>, 0, 0, <<>>)
    /\ UNCHANGED <<data, arg, file, fexists, wret, obj, self, hret, plan, parts,
                   handles>>
    /\ UNCHANGED annot_vars

-----------------------------------------------------------------------------
(* Annotations (phypno/attr/annotations.py) *)

\* The tree is the list of the children of the root element: the dataset
\* element and the rater elements, each with an identity (id), its name, its
\* modified attribute, its markers and the epochs of its stages.  Texts of
\* numbers are kept as the characters str() wrote.

edf_vars == <<data, arg, file, fexists, wret, obj, self, hret, dret, plan,
              parts, handles>>

DatasetElement ==
    [tag |-> "dataset", id |-> 0, name |-> "", modified |-> FALSE,
     markers |-> <<>>, stages |-> <<>>]

\* SubElement(self.root, 'rater') with its name, and the empty subtree
RaterElement(id, name) ==
    [tag |-> "rater", id |-> id, name |-> name, modified |-> FALSE,
     markers |-> <<>>, stages |-> <<>>]

\* list.remove / Element.remove of the child at position i (from 1)
RemoveAt(seq, i) == SubSeq(seq, 1, i - 1) \o SubSeq(seq, i + 1, Len(seq))

IsRater(el) == el.tag = "rater"

\* self.root.findall('rater')
findall_rater(r) == SelectSeq(r.children, IsRater)

\* self.root.find('rater'): the first rater, or None (0)
find_rater(r) ==
    IF findall_rater(r) = <<>> THEN 0 ELSE findall_rater(r)[1].id

\* the property raters: the names, in the order of the tree
raters(r) == [i \in 1..Len(findall_rater(r)) |-> findall_rater(r)[i].name]

\* the position in the tree of the element with this identity, or 0
position(r, id) ==
    IF \E i \in 1..Len(r.children) : r.children[i].id = id
    THEN CHOOSE i \in 1..Len(r.children) : r.children[i].id = id
    ELSE 0

\* the identity of a new element
new_id(r, cur) ==
    CHOOSE i \in 1..(Len(r.children) + 2) :
        /\ i # cur
        /\ \A k \in 1..Len(r.children) : r.children[k].id # i

\* save: the current rater gets a modified attribute and the tree is written
save(r, cur) ==
    [r EXCEPT !.children = [i \in 1..Len(@) |->
        IF cur # 0 /\ @[i].id = cur THEN [@[i] EXCEPT !.modified = TRUE]
        ELSE @[i]]]

\* get_rater: every rater of that name is selected in turn; KeyError if none
RECURSIVE get_rater_loop(_, _, _, _)
get_rater_loop(all, rater_name, cur, found) ==
    IF all = <<>> THEN [rater |-> cur, found |-> found]
    ELSE IF Head(all).name = rater_name
         THEN get_rater_loop(Tail(all), rater_name, Head(all).id, TRUE)
         ELSE get_rater_loop(Tail(all), rater_name, cur, found)

get_rater_result(r, cur, rater_name) ==
    LET g == get_rater_loop(findall_rater(r), rater_name, cur, FALSE)
    IN  [status |-> IF g.found THEN "ok" ELSE "KeyError", rater |-> g.rater]

\* ceil(a / b) for b > 0
ceil(a, b) == -((-a) \div b)

\* range(start, stop, step) for step > 0
range_list(start, stop, step) ==
    [i \in 1..(IF stop > start THEN ceil(stop - start, step) ELSE 0) |->
        start + (i - 1) * step]

\* create_epochs: the epochs it appends to the stages of the current rater
create_epochs_result(r, epoch_length) ==
    LET first_sec == int(r.first_second).v
        last_second == int(r.last_second).v
    IN  IF epoch_length = 0
        THEN [status |-> "ZeroDivisionError", stages |-> <<>>]
        ELSE
        LET last_sec == ceil(last_second - first_sec, epoch_length)
                        * epoch_length
            begs == range_list(first_sec, last_sec, epoch_length)
        IN  [status |-> "ok",
             stages |-> [i \in 1..Len(begs) |->
                 [epoch_start |-> str(IntNum(begs[i])),
                  epoch_end |-> str(IntNum(begs[i] + epoch_length)),
                  stage |-> "Unknown"]]]

add_rater_result(r, cur, rater_name, epoch_length) ==
    IF \E i \in 1..Len(raters(r)) : raters(r)[i] = rater_name
    THEN LET g == get_rater_result(r, cur, rater_name)
         IN  [status |-> g.status, root |-> r, rater |-> g.rater,
              saved |-> FALSE, existed |-> TRUE]
    ELSE
    LET r1 == [r EXCEPT !.children =
                  Append(@, RaterElement(new_id(r, cur), rater_name))]
        g == get_rater_result(r1, cur, rater_name)
        e == create_epochs_result(r1, epoch_length)
        at == position(r1, g.rater)
        r2 == [r1 EXCEPT !.children[at].stages = @ \o e.stages]
    IN  IF e.status # "ok"
        THEN [status |-> e.status, root |-> r1, rater |-> g.rater,
              saved |-> FALSE, existed |-> FALSE]
        ELSE [status |-> "ok", root |-> save(r2, g.rater), rater |-> g.rater,
              saved |-> TRUE, existed |-> FALSE]

\* a variant that keeps the rater that is removed: self.rater = all_raters[idx]
\* without idx -= 1
select_same(idx) == idx

\* idx -= 1 (select the previous rater); if idx == -1: idx = 1
select_previous(idx) == IF idx - 1 = -1 THEN 1 ELSE idx - 1

\* the position (from 0) of the element in the list: all_raters.index
index(all, id) == (CHOOSE i \in 1..Len(all) : all[i].id = id) - 1

\* the loop of remove_rater over the children of the root, which loses the
\* removed child while it runs: i is the position (from 0) of the iterator
RECURSIVE remove_rater_loop(_, _, _, _)
remove_rater_loop(r, i, cur, rater_name) ==
    IF i >= Len(r.children) THEN [root |-> r, rater |-> cur]
    ELSE
    LET el == r.children[i + 1]
    IN  IF IsRater(el) /\ el.name = rater_name
        THEN LET all_raters == findall_rater(r)
                 next == IF el.id # cur THEN cur
                         ELSE IF Len(all_raters) = 1 THEN 0
                         ELSE all_raters[select_previous(
                                  index(all_raters, cur)) + 1].id
             IN  remove_rater_loop(
                     [r EXCEPT !.children = RemoveAt(@, i + 1)],
                     i + 1, next, rater_name)
        ELSE remove_rater_loop(r, i + 1, cur, rater_name)

remove_rater_result(r, cur, rater_name) ==
    LET l == remove_rater_loop(r, 0, cur, rater_name)
    IN  [status |-> "ok", root |-> save(l.root, l.rater), rater |-> l.rater]

\* an argument left at None
NoName == [none |-> TRUE, s |-> ""]
NoWindow == [none |-> TRUE, t |-> <<0, 0>>]
Name(s) == [none |-> FALSE, s |-> s]
Window(a, b) == [none |-> FALSE, t |-> <<a, b>>]

\* the marker add_marker appends: the texts of its four children
new_marker(name, time, chan) ==
    [marker_name |-> name,
     marker_start |-> str(IntNum(time[1])),
     marker_end |-> str(IntNum(time[2])),
     marker_chan |-> Name(chan)]

add_marker_result(r, cur, name, time, chan) ==
    IF cur = 0 THEN [status |-> "IndexError", root |-> r, saved |-> FALSE]
    ELSE [status |-> "ok", saved |-> TRUE,
          root |-> save([r EXCEPT !.children[position(r, cur)].markers =
                            Append(@, new_marker(name, time, chan))], cur)]

\* name_cond and time_cond and chan_cond of remove_marker
matches(m, name, time, chan) ==
    LET marker_start == float(m.marker_start).v
        marker_end == float(m.marker_end).v
        marker_chan == IF m.marker_chan.none THEN "" ELSE m.marker_chan.s
    IN  /\ name.none \/ m.marker_name = name.s
        /\ time.none \/ (time.t[1] <= marker_end /\ time.t[2] >= marker_start)
        /\ chan.none \/ marker_chan = chan.s

\* for m in markers: ... markers.remove(m): the loop runs over the list it
\* removes from; i is the position (from 0) of the iterator
RECURSIVE remove_marker_loop(_, _, _, _, _)
remove_marker_loop(markers, i, name, time, chan) ==
    IF i >= Len(markers) THEN markers
    ELSE IF matches(markers[i + 1], name, time, chan)
         THEN remove_marker_loop(RemoveAt(markers, i + 1), i + 1,
                                 name, time, chan)
         ELSE remove_marker_loop(markers, i + 1, name, time, chan)

remove_marker_result(r, cur, name, time, chan) ==
    IF cur = 0 THEN [status |-> "AttributeError", root |-> r, saved |-> FALSE]
    ELSE [status |-> "ok", saved |-> TRUE,
          root |-> save([r EXCEPT !.children[position(r, cur)].markers =
                            remove_marker_loop(@, 0, name, time, chan)], cur)]

\* the markers of the current rater
current_markers(r, cur) ==
    IF position(r, cur) = 0 THEN <<>> ELSE r.children[position(r, cur)].markers

NoCall ==
    [op |-> "none", status |-> "none", rater_name |-> "", epoch_length |-> 0,
     existed |-> FALSE, name |-> NoName, time |-> NoWindow, chan |-> NoName,
     before |-> <<>>, prev_rater |-> 0]

\* no Annotations object
NoAnnotations ==
    /\ root = [first_second |-> <<>>, last_second |-> <<>>, children |-> <<>>]
    /\ rater = 0
    /\ xml_file = root
    /\ aret = NoCall

get_rater(Names) ==
    /\ \E rater_name \in Names :
        LET g == get_rater_result(root, rater, rater_name)
        IN  /\ rater' = g.rater
            /\ aret' = [NoCall EXCEPT !.op = "get_rater", !.status = g.status,
                                      !.rater_name = rater_name]
    /\ UNCHANGED <<root, xml_file>>
    /\ UNCHANGED edf_vars

add_rater(Names, Lengths, max) ==
    /\ \E rater_name \in Names, epoch_length \in Lengths :
        LET a == add_rater_result(root, rater, rater_name, epoch_length)
        IN  /\ a.existed \/ Len(findall_rater(root)) < max
            /\ root' = a.root
            /\ rater' = a.rater
            /\ xml_file' = IF a.saved THEN a.root ELSE xml_file
            /\ aret' = [NoCall EXCEPT !.op = "add_rater", !.status = a.status,
                                      !.rater_name = rater_name,
                                      !.epoch_length = epoch_length,
                                      !.existed = a.existed]
    /\ UNCHANGED edf_vars

remove_rater(Names) ==
    /\ \E rater_name \in Names :
        LET x == remove_rater_result(root, rater, rater_name)
        IN  /\ root' = x.root
            /\ rater' = x.rater
            /\ xml_file' = x.root
            /\ aret' = [NoCall EXCEPT !.op = "remove_rater",
                                      !.status = x.status,
                                      !.rater_name = rater_name,
                                      !.prev_rater = rater]
    /\ UNCHANGED edf_vars

add_marker(Names, Times, Chans, max) ==
    /\ Len(current_markers(root, rater)) < max
    /\ \E name \in Names, time \in Times, chan \in Chans :
        LET a == add_marker_result(root, rater, name, time, chan)
        IN  /\ root' = a.root
            /\ xml_file' = IF a.saved THEN a.root ELSE xml_file
            /\ aret' = [NoCall EXCEPT !.op = "add_marker", !.status = a.status,
                                      !.name = Name(name),
                                      !.time = Window(time[1], time[2]),
                                      !.chan = Name(chan)]
    /\ UNCHANGED rater
    /\ UNCHANGED edf_vars

remove_marker(Names, Times, Chans) ==
    /\ \E name \in Names, time \in Times, chan \in Chans :
        LET x == remove_marker_result(root, rater, name, time, chan)
        IN  /\ root' = x.root
            /\ xml_file' = IF x.saved THEN x.root ELSE xml_file
            /\ aret' = [NoCall EXCEPT !.op = "remove_marker",
                                      !.status = x.status,
                                      !.name = name, !.time = time,
                                      !.chan = chan,
                                      !.before = current_markers(root, rater)]
    /\ UNCHANGED rater
    /\ UNCHANGED edf_vars

-----------------------------------------------------------------------------
(* Inputs *)

NoResult == Failed("none", <<>>, 0, 0, <<>>)
NoParts == [left |-> NoResult, right |-> NoResult, whole |-> NoResult]
NoPlan == [active |-> FALSE, chan |-> <<>>, a |-> 0, m |-> 0, b |-> 0]
NoHdr == [status |-> "none", n_samples |-> 0, s_freq |-> <<0, 1>>]
NoTime == [none |-> TRUE, year |-> 1, month |-> 1, day |-> 1, hour |-> 0,
           minute |-> 0, sec |-> 0]
NoWrite == [status |-> "none", physical_max |-> IntNum(0), dat |-> <<>>,
            start_time |-> NoTime, body_at |-> 0]
NoData == [start_time |-> NoTime, time0 |-> 0, s_freq |-> 1, chan |-> <<>>,
           mat |-> <<>>]
NoArg == [supplied |-> FALSE, none |-> FALSE, v |-> DEFAULT_PHYSICAL_MAX]

\* channel labels "C1", "C2", ...
Label(c) == <<67, 48 + c>>

\* data whose samples are all different (or all equal, with step 0)
Ramp(start, step, n_chan, n_smp) ==
    [c \in 1..n_chan |-> [t \in 1..n_smp |->
        start + step * ((c - 1) * n_smp + (t - 1))]]

Starts == {-1200, 0, 990}
Steps == {-350, 0, 7}
NewYearsEve == [none |-> FALSE, year |-> 2014, month |-> 12, day |-> 31,
                hour |-> 23, minute |-> 59, sec |-> 58]
StartTimes == {NoTime, NewYearsEve}
Time0s == {0, 2}

\* every shape with every ramp, and one shape with every start time
Datasets ==
    {[start_time |-> NewYearsEve, time0 |-> 0, s_freq |-> sf,
      chan |-> [c \in 1..nc |-> Label(c)], mat |-> Ramp(s0, dx, nc, ns)] :
        sf \in 1..MaxFreq, nc \in 1..MaxChan, ns \in 1..MaxSmp,
        s0 \in Starts, dx \in Steps}
    \cup
    {[start_time |-> st, time0 |-> t0, s_freq |-> 1,
      chan |-> <<Label(1)>>, mat |-> Ramp(0, 7, 1, 2)] :
        st \in StartTimes \cup {[NewYearsEve EXCEPT !.year = y] :
                                    y \in FirstYear..LastYear},
        t0 \in Time0s}

\* physical_max left out (the default of the signature), None, or a number
\* (one of four digits, one of eight)
Args ==
    {NoArg,
     [supplied |-> TRUE, none |-> TRUE, v |-> 0],
     [supplied |-> TRUE, none |-> FALSE, v |-> 1500],
     [supplied |-> TRUE, none |-> FALSE, v |-> 10000000]}

\* what an earlier program left at the path of the file
Stale == <<1, 2, 3>>

\* the channel lists of the calls: all channels of a file, in order
AllChans == {[i \in 1..n |-> i - 1] : n \in 1..MaxChan}

Init ==
    /\ data \in Datasets
    /\ arg \in Args
    \* the path is free, or (for the calls that leave physical_max out)
    \* holds an earlier file
    /\ file \in IF arg.supplied THEN {<<>>} ELSE {<<>>, Stale}
    /\ fexists = (file # <<>>)
    /\ wret = NoWrite
    /\ obj = "none"
    /\ self = <<>>
    /\ hret = NoHdr
    /\ dret = NoResult
    /\ plan = NoPlan
    /\ parts = NoParts
    /\ handles = 0
    /\ NoAnnotations

Next ==
    \/ write_edf
    \/ Edf_init
    \/ return_hdr
    \/ return_dat(AllChans, {0}, 1..MaxSmp)
    \/ release

Spec == Init /\ [][Next]_vars

-----------------------------------------------------------------------------
(* Reading files that were not written by write_edf *)

\* a file laid out as the format says: the header fields at their fixed
\* widths, then the records, each holding the run of every channel in turn
edf_file(h) ==
    LET n == Len(h.n_samples_per_record)
    IN     h.version
        \o ljust(SubjectText, 80)
        \o ljust(RecordingText, 80)
        \o two(1) \o <<46>> \o two(1) \o <<46>> \o two(0)
        \o two(0) \o <<46>> \o two(0) \o <<46>> \o two(0)
        \o ljust(str(IntNum(h.header_n_bytes)), 8)
        \o Spaces(44)
        \o ljust(str(IntNum(h.n_records)), 8)
        \o ljust(str(IntNum(1)), 8)
        \o ljust(str(IntNum(n)), 4)
        \o Concat([c \in 1..n |-> ljust(Label(c), 16)])
        \o Rep(Spaces(80), n)
        \o Rep(ljust(UnitText, 8), n)
        \o Rep(ljust(str(IntNum(h.physical_min)), 8), n)
        \o Rep(ljust(str(IntNum(h.physical_max)), 8), n)
        \o Rep(ljust(str(IntNum(h.digital_min)), 8), n)
        \o Rep(ljust(str(IntNum(h.digital_max)), 8), n)
        \o Rep(Spaces(80), n)
        \o Concat([c \in 1..n |-> ljust(str(IntNum(h.n_samples_per_record[c])), 8)])
        \o Rep(Spaces(32), n)
        \o Concat([k \in 1..(h.n_records * SumSeq(h.n_samples_per_record)) |->
                      pack_h(h.sample[k])])

\* the samples of the body, in file order: the scenario of two channels of
\* four samples, [0, 1024, -1024, 2047] then [0, 0, 0, 0], repeated; or
\* samples that are all different
Scenario == <<0, 1024, -1024, 2047, 0, 0, 0, 0>>
Samples(kind) ==
    [k \in 1..(MaxRecords * 8) |->
        IF kind = "scenario" THEN Scenario[((k - 1) % 8) + 1]
        ELSE 300 * k - 700]

Nsprs == {<<2>>, <<4, 4>>, <<4, 2>>, <<1, 2>>, <<3, 2>>}

GoodRange == [physical_min |-> -100, physical_max |-> 100,
              digital_min |-> -2048, digital_max |-> 2047]
Ranges ==
    {GoodRange,
     [GoodRange EXCEPT !.physical_max = -100],
     [GoodRange EXCEPT !.physical_min = 100, !.physical_max = -100],
     [GoodRange EXCEPT !.digital_max = -2048],
     [GoodRange EXCEPT !.digital_min = 2047, !.digital_max = -2048]}

Header(version, extra, n_records, nspr, range, kind) ==
    [version |-> version,
     header_n_bytes |-> 256 + 256 * Len(nspr) + extra,
     n_records |-> n_records,
     n_samples_per_record |-> nspr,
     physical_min |-> range.physical_min,
     physical_max |-> range.physical_max,
     digital_min |-> range.digital_min,
     digital_max |-> range.digital_max,
     sample |-> Samples(kind)]

\* well-formed files with sound and unsound ranges, and files whose
\* version marker or declared header length is wrong
ReadHeaders ==
    {Header(MARKER, 0, nr, nspr, range, kind) :
        nr \in 1..MaxRecords, nspr \in Nsprs, range \in Ranges,
        kind \in {"scenario", "ramp"}}
    \cup
    {Header(version, extra, 1, nspr, GoodRange, "ramp") :
        version \in {MARKER, <<49>> \o Spaces(7), Spaces(8)},
        extra \in {-256, 0, 1}, nspr \in {<<2>>, <<4, 4>>}}

ChanLists == {<<0>>, <<1>>, <<0, 1>>, <<1, 0>>}

InitFile(f) ==
    /\ data = NoData
    /\ arg = NoArg
    /\ file = f
    /\ fexists = TRUE
    /\ wret = NoWrite
    /\ obj = "none"
    /\ self = <<>>
    /\ hret = NoHdr
    /\ dret = NoResult
    /\ handles = 0
    /\ NoAnnotations

InitRead ==
    /\ \E h \in ReadHeaders : InitFile(edf_file(h))
    /\ plan = NoPlan
    /\ parts = NoParts

\* the sample indices of the calls: the largest file has MaxRecords records
\* of four samples; one index more is out of every file
SampleRange == 0..(4 * MaxRecords + 1)

NextRead ==
    \/ Edf_init
    \/ return_hdr
    \/ return_dat(ChanLists, SampleRange, SampleRange)
    \/ release

SpecRead == InitRead /\ [][NextRead]_vars

-----------------------------------------------------------------------------
(* A composed read: [a, m) and [m, b) against [a, b) *)

ComposeHeaders ==
    {Header(MARKER, 0, nr, nspr, GoodRange, "ramp") :
        nr \in 1..MaxRecords, nspr \in {<<2>>, <<3, 3>>, <<1, 2>>}}

Plans ==
    {[active |-> TRUE, chan |-> chan, a |-> a, m |-> m, b |-> b] :
        chan \in {<<0>>, <<1, 0>>}, a \in 0..(3 * MaxRecords),
        m \in 0..(3 * MaxRecords), b \in 0..(3 * MaxRecords)}

InitCompose ==
    /\ \E h \in ComposeHeaders : InitFile(edf_file(h))
    /\ plan \in {p \in Plans : p.a < p.m /\ p.m < p.b}
    /\ parts = NoParts

NextCompose ==
    \/ Edf_init
    \/ return_hdr
    \/ return_dat({plan.chan}, {plan.a, plan.m}, {plan.m, plan.b})
    \/ release

SpecCompose == InitCompose /\ [][NextCompose]_vars

-----------------------------------------------------------------------------
(* Properties *)

\* the value q = num / den is within one quantisation step,
\* physical_max / DIGITAL_MAX, of the integer v
WithinStep(q, v, pm) ==
    /\ ~q.nan
    /\ q.den > 0
    /\ Abs(q.num - v * q.den) <= (pm * q.den) \div DIGITAL_MAX

\* the whole dataset was written (whole seconds, at least one) with every
\* value in range, the file was opened, and all of it was read back
RoundTripDone ==
    /\ wret.status = "ok"
    /\ Len(data.mat[1]) >= data.s_freq
    /\ Len(data.mat[1]) % data.s_freq = 0
    /\ \A c \in 1..Len(data.mat) : \A t \in 1..Len(data.mat[c]) :
          Abs(data.mat[c][t]) <= wret.physical_max.v
    /\ obj = "ok"
    /\ hret.status = "ok"
    /\ dret.status = "ok"
    /\ dret.chan = [i \in 1..Len(data.mat) |-> i - 1]
    /\ dret.begsam = 0
    /\ dret.endsam = hret.n_samples

\* C1: a dataset of whole seconds with all values within
\* [-physical_max, physical_max], written by write_edf and read back over
\* [0, n_samples) for all channels, comes back with every value within one
\* quantisation step of the original.
C1_RoundTrip ==
    RoundTripDone =>
        /\ hret.n_samples = Len(data.mat[1])
        /\ \A c \in 1..Len(data.mat) : \A t \in 1..Len(data.mat[c]) :
              WithinStep(dret.dat[c][t], data.mat[c][t], wret.physical_max.v)

\* the run the body layout stores for channel i_ch (0-based) in record blk:
\* records back to back after the header, channel runs back to back in each
\* record, two bytes a sample
LayoutRun(f, hdr, blk, i_ch) ==
    LET nspr == hdr.n_samples_per_record
        first == SumSeq(nspr) * blk + SumSeq(SubSeq(nspr, 1, i_ch))
    IN  [k \in 1..nspr[i_ch + 1] |->
            unpack_h(f[hdr.header_n_bytes + 2 * (first + k - 1) + 1],
                     f[hdr.header_n_bytes + 2 * (first + k - 1) + 2])]

\* C2: what _read_record obtains for a requested channel in a record is
\* exactly the run of samples the body layout stores for that channel in
\* that record.
C2_ReadsTheRun ==
    dret.status = "ok" =>
        \A n \in 1..Len(dret.reads) :
            \A k \in 1..Len(dret.chan) :
                dret.reads[n].x[k] =
                    LayoutRun(file, self.hdr, dret.reads[n].blk, dret.chan[k])

\* the request is in the bounds of the file and names channels of the file
InBounds(r, hdr) ==
    /\ 0 <= r.begsam /\ r.begsam < r.endsam
    /\ r.endsam <= hdr.n_records * MaxSeq(hdr.n_samples_per_record)
    /\ \A k \in 1..Len(r.chan) :
          r.chan[k] >= 0 /\ r.chan[k] < Len(hdr.n_samples_per_record)

\* the columns (0-based) the block read n of a call filled
Filled(r, n) == {j \in 0..(r.endsam - r.begsam - 1) :
                    r.reads[n].i_dat[1] <= j /\ j < r.reads[n].i_dat[2]}

\* C3: a matrix return_dat returns for an in-bounds request has len(chan)
\* rows and endsam - begsam columns, no cell of it is still NaN, and the
\* blocks read filled every column exactly once.
C3_ShapeAndNoNaN ==
    (dret.status = "ok" /\ InBounds(dret, self.hdr)) =>
        /\ Len(dret.dat) = Len(dret.chan)
        /\ \A r \in 1..Len(dret.dat) :
              /\ Len(dret.dat[r]) = dret.endsam - dret.begsam
              /\ \A j \in 1..Len(dret.dat[r]) :
                    ~dret.dat[r][j].nan /\ dret.raw[r][j] # NaN
        /\ \A j \in 0..(dret.endsam - dret.begsam - 1) :
              Cardinality({n \in 1..Len(dret.reads) : j \in Filled(dret, n)}) = 1

\* a returned read of two channels that starts inside one record and ends
\* inside a later one
C3_Witness ==
    /\ dret.status = "ok"
    /\ InBounds(dret, self.hdr)
    /\ Len(dret.chan) = 2
    /\ Len(dret.reads) >= 2
    /\ dret.reads[1].i_blk[1] > 0
    /\ dret.reads[Len(dret.reads)].i_blk[2] < self.max_smp

\* the file is well formed: sound ranges, and every channel's count of
\* samples per record divides the largest
WellFormed(hdr) ==
    /\ \A i \in 1..Len(hdr.n_samples_per_record) :
          /\ hdr.physical_max[i] > hdr.physical_min[i]
          /\ hdr.digital_max[i] > hdr.digital_min[i]
          /\ MaxSeq(hdr.n_samples_per_record) % hdr.n_samples_per_record[i] = 0

\* C4: on an Edf object opened on a well-formed file, every return_dat call
\* with valid channels and an in-bounds range returns a matrix, whatever
\* calls came before it, none included.
C4_ReadNeverRaises ==
    (obj = "ok" /\ WellFormed(self.hdr) /\ dret.status # "none"
        /\ InBounds(dret, self.hdr)) => dret.status = "ok"

\* C5: the read of [a, m) followed column-wise by the read of [m, b) is the
\* read of [a, b), cell for cell.
C5_ReadsCompose ==
    (parts.left.status = "ok" /\ parts.right.status = "ok"
        /\ parts.whole.status = "ok") =>
        /\ parts.whole.dat =
              [r \in 1..Len(plan.chan) |-> parts.left.dat[r] \o parts.right.dat[r]]
        /\ parts.whole.raw =
              [r \in 1..Len(plan.chan) |-> parts.left.raw[r] \o parts.right.raw[r]]

\* the three reads were made, of two channels, m inside a record and
\* [a, b) over more than one record
C5_Witness ==
    /\ parts.left.status = "ok" /\ parts.right.status = "ok"
    /\ parts.whole.status = "ok"
    /\ Len(plan.chan) = 2
    /\ plan.m % self.max_smp # 0
    /\ Len(parts.whole.reads) >= 2
    /\ Len(parts.right.reads) >= 2

\* C6: when the count n of a channel divides max_smp, k = max_smp / n,
\* position j of the channel's row of the decoded block holds raw sample
\* floor(j / k) of the n samples read for it; with n = max_smp the row is
\* the samples read.
C6_Upsampling ==
    \A n \in 1..Len(dret.reads) :
        dret.reads[n].status = "ok" =>
            \A c \in 1..Len(dret.chan) :
                LET count == self.hdr.n_samples_per_record[dret.chan[c] + 1]
                    k == self.max_smp \div count
                IN  self.max_smp % count = 0 =>
                        /\ Len(dret.reads[n].x[c]) = count
                        /\ Len(dret.reads[n].dat_in_rec[c]) = self.max_smp
                        /\ \A j \in 0..(self.max_smp - 1) :
                              dret.reads[n].dat_in_rec[c][j + 1] =
                                  dret.reads[n].x[c][(j \div k) + 1]
                        /\ (k = 1 =>
                              dret.reads[n].dat_in_rec[c] = dret.reads[n].x[c])

\* a block in which a channel of two different samples was doubled
C6_Witness ==
    /\ dret.status = "ok"
    /\ Len(dret.reads) >= 1
    /\ \E c \in 1..Len(dret.chan) :
          /\ Len(dret.reads[1].x[c]) = 2
          /\ self.max_smp = 4
          /\ dret.reads[1].x[c][1] # dret.reads[1].x[c][2]

\* C7: every value written to the body is in [-32767, 32767]; a sample above
\* physical_max is written as 32767 and one below -physical_max as -32767.
C7_Saturation ==
    wret.status = "ok" =>
        \A c \in 1..Len(data.mat) : \A t \in 1..Len(data.mat[c]) :
            /\ wret.dat[c][t] >= DIGITAL_MIN /\ wret.dat[c][t] <= DIGITAL_MAX
            /\ (data.mat[c][t] > wret.physical_max.v =>
                    wret.dat[c][t] = DIGITAL_MAX)
            /\ (data.mat[c][t] < -wret.physical_max.v =>
                    wret.dat[c][t] = DIGITAL_MIN)

\* what the file says about itself, at the fixed places of the header
FileVersion == SubSeq(file, 1, 8)
FileDeclaredLength == int(SubSeq(file, 185, 192)).v
FileChannels == int(SubSeq(file, 253, 256)).v

\* C8: opening fails when the first 8 bytes are not the version marker or
\* when the offset after the header fields, 256 + 256 * n_channels, is not
\* the declared header_n_bytes; then no hdr is attached and no read follows.
C8_OpenRejects ==
    /\ (obj # "none" /\ (FileVersion # MARKER
                         \/ FileDeclaredLength # 256 + 256 * FileChannels))
          => obj # "ok"
    /\ obj # "ok" =>
          ~has(self, "hdr") /\ hret.status = "none" /\ dret.status = "none"

\* a file with the right marker was refused for its declared length
C8_Witness ==
    /\ obj = "AssertionError"
    /\ FileVersion = MARKER
    /\ FileDeclaredLength # 256 + 256 * FileChannels

\* some channel has physical_max <= physical_min or digital_max <= digital_min
UnsoundRange(hdr) ==
    \E i \in 1..Len(hdr.physical_max) :
        \/ hdr.physical_max[i] <= hdr.physical_min[i]
        \/ hdr.digital_max[i] <= hdr.digital_min[i]

\* C9 as claimed: constructing Edf on a file with an unsound range fails.
C9_RejectedAtOpen ==
    ~(obj = "ok" /\ UnsoundRange(self.hdr))

\* C9 as amended: constructing Edf on such a file succeeds; the file is
\* refused by return_hdr, which fails on its assertion and never sets the
\* gain, and no return_dat call on the object returns data.
C9_RejectedByReturnHdr ==
    (obj = "ok" /\ UnsoundRange(self.hdr)) =>
        /\ hret.status \in {"none", "AssertionError"}
        /\ ~has(self, "gain")
        /\ dret.status # "ok"

\* return_hdr refused the file and a read was tried after it
C9_Witness ==
    /\ obj = "ok" /\ UnsoundRange(self.hdr)
    /\ hret.status = "AssertionError"
    /\ dret.status = "AttributeError"
    /\ dret.begsam < dret.endsam

\* the largest magnitude of the data
LargestMagnitude(mat) ==
    CHOOSE m \in {Abs(mat[c][t]) : c \in 1..Len(mat), t \in 1..Len(mat[1])} :
        \A c \in 1..Len(mat) : \A t \in 1..Len(mat[c]) : Abs(mat[c][t]) <= m

\* the text of the physical_max field of the first channel, which follows
\* the fixed part, the labels, transducers, units and physical_min fields
WrittenPhysicalMax ==
    LET n == Len(data.chan)
        w == Max(8, Len(str(negate(wret.physical_max))))
    IN  SubSeq(file, 256 + 104 * n + w * n + 1,
               256 + 104 * n + w * n + Len(str(wret.physical_max)))

\* the encoding used the largest magnitude, wrote it, and clipped nothing
AutoRanged ==
    /\ wret.physical_max.v = LargestMagnitude(data.mat)
    /\ WrittenPhysicalMax = str(FloatNum(LargestMagnitude(data.mat), FALSE))
    /\ \A c \in 1..Len(data.mat) : \A t \in 1..Len(data.mat[c]) :
          /\ Abs(data.mat[c][t]) <= wret.physical_max.v
          /\ (wret.physical_max.v > 0 =>
                wret.dat[c][t] = trunc_quot(data.mat[c][t] * DIGITAL_MAX,
                                            wret.physical_max.v))

\* C10 as claimed: when the caller supplies no physical_max, the encoding
\* uses the largest magnitude of the data, so no sample is saturated.
C10_AutoRangeWhenOmitted ==
    (wret.status = "ok" /\ ~arg.supplied) => AutoRanged

\* C10 as amended: when the caller passes physical_max=None, the encoding
\* uses and writes the largest magnitude of the data, so no sample is
\* saturated; when the argument is left out, it uses the default, 1000.
C10_AutoRangeWhenNone ==
    /\ (wret.status = "ok" /\ arg.supplied /\ arg.none) => AutoRanged
    /\ (wret.status = "ok" /\ ~arg.supplied) =>
          wret.physical_max = IntNum(DEFAULT_PHYSICAL_MAX)

\* None was passed with data whose largest magnitude is a negative sample
C10_Witness ==
    /\ wret.status = "ok" /\ arg.supplied /\ arg.none
    /\ wret.physical_max.v > 0
    /\ \E c \in 1..Len(data.mat) : \E t \in 1..Len(data.mat[c]) :
          data.mat[c][t] = -wret.physical_max.v
    /\ \A c \in 1..Len(data.mat) : \A t \in 1..Len(data.mat[c]) :
          data.mat[c][t] < wret.physical_max.v

-----------------------------------------------------------------------------
(* The records write_edf writes *)

\* what the loop over the records wrote: the bytes after the header
Body == SubSeq(file, wret.body_at + 1, Len(file))

\* the k-th int16 of the body, k from 1
BodyValue(k) == unpack_h(Body[2 * k - 1], Body[2 * k])

\* the n_records and record_length fields, at bytes 236 and 244
WrittenRecords == int(read(file, 236, 8))
WrittenRecordLength == float(read(file, 244, 8))

\* C11: write_edf writes n_records = floor(total_samples / s_freq) and a
\* record length of 1 second in the header; the body is n_records records,
\* record r holding for each channel in turn its samples
\* [r * s_freq, (r + 1) * s_freq); the trailing samples are dropped and the
\* body holds n_records * s_freq * n_channels values of two bytes.
C11_WholeSecondsWritten ==
    wret.status = "ok" =>
        LET s_freq == data.s_freq
            n_channels == Len(data.chan)
            n_records == Len(data.mat[1]) \div s_freq
        IN  /\ WrittenRecords = [ok |-> TRUE, v |-> n_records]
            /\ WrittenRecordLength = [ok |-> TRUE, v |-> 1, exact |-> TRUE]
            /\ Len(Body) = 2 * (n_records * s_freq * n_channels)
            /\ \A r \in 0..(n_records - 1) : \A c \in 1..n_channels :
                  \A k \in 1..s_freq :
                    BodyValue((r * n_channels + (c - 1)) * s_freq + k)
                        = wret.dat[c][r * s_freq + k]

\* two channels of different values were written, with samples left over
\* after the last whole second
C11_Witness ==
    /\ wret.status = "ok"
    /\ Len(data.chan) = 2
    /\ data.s_freq = 2
    /\ Len(data.mat[1]) >= data.s_freq
    /\ Len(data.mat[1]) % data.s_freq # 0
    /\ wret.dat[1][2] # wret.dat[2][1]
    /\ Len(Body) > 0

\* C12: write_edf on data whose start_time is None ends with an error and
\* leaves the path as it was: no file created, none truncated, no byte
\* written.
C12_NoStartTimeNoFile ==
    [][(wret.status = "none" /\ wret'.status # "none" /\ data.start_time.none)
          => (wret'.status = "ValueError" /\ file' = file
              /\ fexists' = fexists)]_vars

\* the call failed for want of a start_time at a path that held a file
C12_Witness ==
    /\ data.start_time.none
    /\ wret.status = "ValueError"
    /\ fexists /\ file = Stale

\* the two digits of the year in the date field, at bytes 174 and 175
WrittenYear == DigitsValue(read(file, 174, 2))

\* C13: a two-digit year yy is parsed as 1900 + yy when yy >= 85 and as
\* 2000 + yy otherwise, so the parsed year lies in 1985..2084, and a
\* start_time write_edf wrote with a year of that interval is parsed back to
\* the same year.
C13_YearNormalisation ==
    (wret.status = "ok" /\ obj = "ok") =>
        LET yy == WrittenYear
            year == self.hdr.start_time.year
        IN  /\ yy \in 0..99
            /\ (yy >= 85 => year = 1900 + yy)
            /\ (yy < 85 => year = 2000 + yy)
            /\ year \in 1985..2084
            /\ (wret.start_time.year \in 1985..2084 =>
                    year = wret.start_time.year)
            /\ (wret.start_time.year \in 1985..2084 =>
                    self.hdr.start_time = [k \in DOMAIN self.hdr.start_time |->
                                              wret.start_time[k]])

\* a recording that ends a year was written with the first sample two
\* seconds later, in 1985 (written as 85), and parsed back
C13_Witness ==
    /\ wret.status = "ok" /\ obj = "ok"
    /\ data.start_time.year = 1984
    /\ wret.start_time.year = 1985
    /\ WrittenYear = 85
    /\ self.hdr.start_time.year = 1985

-----------------------------------------------------------------------------
(* The widths of the header fields *)

\* the header_n_bytes field, at byte 184
WrittenHeaderLength == int(read(file, 184, 8))

\* C16: for every input write_edf accepts, every header field is written at
\* its fixed width, so the header is 256 + 256 * n_channels bytes long, the
\* length it declares, and the body starts at that offset.
C16_HeaderLength ==
    wret.status = "ok" =>
        /\ wret.body_at = 256 + 256 * Len(data.chan)
        /\ WrittenHeaderLength = [ok |-> TRUE, v |-> wret.body_at]

-----------------------------------------------------------------------------
(* File handles *)

\* C15: every return_dat call that gets past its checks opens one handle of
\* its own, closed when the call ends whether it returns or raises; after
\* any sequence of Edf construction, return_hdr and return_dat calls no
\* handle of the Edf object is open; a call refused for begsam >= endsam
\* opens none.
C15_HandlesScoped ==
    /\ handles = 0
    /\ (dret.status # "none" /\ dret.begsam >= dret.endsam) =>
            (dret.status = "AssertionError" /\ ~dret.opened)
    /\ (dret.status # "none" /\ dret.begsam < dret.endsam
            /\ self.hdr.n_samples_per_record # <<>>) => dret.opened
    /\ dret.in_with => dret.opened

\* a call raised while it was reading inside the with block
C15_Witness ==
    /\ dret.status = "ValueError"
    /\ dret.opened /\ dret.in_with
    /\ Len(dret.reads) >= 1
    /\ handles = 0

-----------------------------------------------------------------------------
(* Annotations: the raters *)

\* no EDF file is involved
NoEdf ==
    /\ data = NoData
    /\ arg = NoArg
    /\ file = <<>>
    /\ fexists = FALSE
    /\ wret = NoWrite
    /\ obj = "none"
    /\ self = <<>>
    /\ hret = NoHdr
    /\ dret = NoResult
    /\ plan = NoPlan
    /\ parts = NoParts
    /\ handles = 0

\* an annotation file with these raters, as Annotations loads it
AnnotationFile(first, last, loaded) ==
    [first_second |-> str(IntNum(first)),
     last_second |-> str(IntNum(last)),
     children |-> <<DatasetElement>> \o loaded]

\* Annotations(xml_file): the first rater of the file is selected
Loaded(f) ==
    /\ root = f
    /\ rater = find_rater(f)
    /\ xml_file = f
    /\ aret = NoCall

RaterNames == {"a", "b", "c"}
EpochLengths == {0, 2}
\* first_second and last_second of the dataset
Seconds == {<<0, 5>>, <<3, 6>>}
LoadedRaters == {<<>>, <<"a">>, <<"b", "a">>}

InitRaters ==
    /\ NoEdf
    /\ \E sec \in Seconds, names \in LoadedRaters :
          Loaded(AnnotationFile(sec[1], sec[2],
                     [i \in 1..Len(names) |-> RaterElement(i, names[i])]))

NextRaters ==
    \/ get_rater(RaterNames)
    \/ add_rater(RaterNames, EpochLengths, MaxRaters)
    \/ remove_rater(RaterNames)

SpecRaters == InitRaters /\ [][NextRaters]_vars

\* names are unique; the current rater is None exactly when there is no
\* rater, and otherwise an element of the tree
RaterInvariant ==
    LET all == findall_rater(root)
    IN  /\ \A i \in 1..Len(all) : \A j \in 1..Len(all) :
              all[i].name = all[j].name => i = j
        /\ (rater = 0) <=> (all = <<>>)
        /\ rater # 0 => \E i \in 1..Len(all) : all[i].id = rater

\* add_rater with a name of the tree adds nothing and selects that rater
AddExisting ==
    (aret'.op = "add_rater" /\ aret'.existed) =>
        /\ root' = root
        /\ \E i \in 1..Len(root.children) :
              /\ root.children[i].name = aret'.rater_name
              /\ root.children[i].id = rater'

\* C17: from a file with unique rater names loaded without a rater_name,
\* after any add_rater, remove_rater and get_rater calls the rater names
\* stay unique, the current rater is None exactly when the tree has no
\* rater and otherwise is a rater of the tree; add_rater with an existing
\* name adds no element and selects the existing one.
C17_RaterSelection == []RaterInvariant /\ [][AddExisting]_vars

\* the current rater was removed from a tree of three and another one of
\* the tree took its place
C17_Witness ==
    /\ aret.op = "remove_rater"
    /\ aret.prev_rater # 0
    /\ position(root, aret.prev_rater) = 0
    /\ Len(findall_rater(root)) = 2
    /\ rater # 0 /\ position(root, rater) # 0

\* the epochs of the current rater, as numbers
Epochs ==
    LET stages == root.children[position(root, rater)].stages
    IN  [i \in 1..Len(stages) |->
            [epoch_start |-> int(stages[i].epoch_start).v,
             epoch_end |-> int(stages[i].epoch_end).v]]

\* the epochs tile [first, last) in steps of epoch_length
Tiles(epochs, first, last, epoch_length) ==
    /\ \A i \in 1..Len(epochs) :
          epochs[i].epoch_end = epochs[i].epoch_start + epoch_length
    /\ Len(epochs) >= 1 => epochs[1].epoch_start = first
    /\ \A i \in 1..(Len(epochs) - 1) :
          epochs[i + 1].epoch_start = epochs[i].epoch_end
    /\ first < last =>
          (Len(epochs) >= 1 /\ epochs[Len(epochs)].epoch_end >= last)
    /\ \A t \in first..(last - 1) :
          Cardinality({i \in 1..Len(epochs) :
              epochs[i].epoch_start <= t /\ t < epochs[i].epoch_end}) = 1

\* C18: for first_second <= last_second and a positive epoch_length, the
\* epochs created for a new rater each last epoch_length seconds, start at
\* first_second, follow one another without gap or overlap and end at or
\* after last_second, so every second of [first_second, last_second) is in
\* exactly one epoch.
C18_EpochTiling ==
    (aret.op = "add_rater" /\ aret.status = "ok" /\ ~aret.existed) =>
        Tiles(Epochs, int(root.first_second).v, int(root.last_second).v,
              aret.epoch_length)

-----------------------------------------------------------------------------
(* Annotations: the markers *)

MarkerNames == {"x", "y"}
MarkerTimes == {<<0, 1>>, <<5, 6>>}
MarkerChans == {"", "C1"}

\* a rater read from a file, with one marker whose marker_chan is empty
\* (xml does not store the empty string: its text is None)
RaterWithMarker ==
    [RaterElement(1, "a") EXCEPT !.markers =
        << [new_marker("x", <<0, 1>>, "") EXCEPT !.marker_chan = NoName] >>]

InitMarkers ==
    /\ NoEdf
    /\ \E loaded \in {<<>>, <<RaterElement(1, "a")>>, <<RaterWithMarker>>} :
          Loaded(AnnotationFile(0, 6, loaded))

NextMarkers ==
    \/ add_marker(MarkerNames, MarkerTimes, MarkerChans, MaxMarkers)
    \/ remove_marker({NoName, Name("x")}, {NoWindow, Window(0, 2)},
                     {NoName, Name("")})

SpecMarkers == InitMarkers /\ [][NextMarkers]_vars

\* the markers that do not match the filters, in order
RECURSIVE without_matching(_, _, _, _)
without_matching(markers, name, time, chan) ==
    IF markers = <<>> THEN <<>>
    ELSE (IF matches(Head(markers), name, time, chan) THEN <<>>
          ELSE <<Head(markers)>>)
         \o without_matching(Tail(markers), name, time, chan)

\* C14: remove_marker without arguments leaves the marker list of the
\* current rater empty; with filters it removes every marker that matches
\* all of them and no other.
C14_RemovesMatching ==
    (aret.op = "remove_marker" /\ aret.status = "ok") =>
        current_markers(root, rater)
            = without_matching(aret.before, aret.name, aret.time, aret.chan)

====
